---- MODULE Spec2Model ----
(***************************************************************************)
(* Model of src/main.rs: a playlist converter that drives a browser.       *)
(* main classifies the source URL, runs one extractor (YouTube Music or    *)
(* Spotify), optionally saves the playlist as JSON and optionally resolves *)
(* every track to an Apple Music link.                                     *)
(*                                                                         *)
(* Encoding of Rust values:                                                *)
(*   Option<T>      None = << >>         Some(x) = <<x>>                   *)
(*   Result<T, E>   Err(_) = << >>       Ok(x) = <<x>>                     *)
(*   String         a TLA+ string; an href is a sequence of tokens so that *)
(*                  percent-decoding is a real conversion                  *)
(***************************************************************************)
EXTENDS Integers, Sequences, FiniteSets, TLC

\* ---------------------------------------------------------------- bounds
MaxRows == 3      \* rows one Spotify query can return
MaxYtRows == 2    \* rows the YouTube query can return
MaxCands == 2     \* <li> candidates under the "Songs" container

\* ---------------------------------------------------------------- values
None == << >>
Some(x) == <<x>>
Err == << >>
Ok(x) == <<x>>

Range(s) == {s[i] : i \in 1..Len(s)}

NonEmptySeqsUpTo(S, n) == UNION {[1..k -> S] : k \in 1..n}

IsPrefix(s, t) == Len(s) <= Len(t) /\ SubSeq(t, 1, Len(s)) = s

\* struct Track { name, artist, album: Option<String> } with derived PartialEq
Track(name, artist, album) == [name |-> name, artist |-> artist, album |-> album]

\* str::to_lowercase on the titles the model uses
to_lowercase(s) ==
    CASE s = "Song A" -> "song a"
      [] s = "Song B" -> "song b"
      [] OTHER -> s

\* ------------------------------------------------------- Platform::from_url
NoHost == "<no host>"

Hosts == {"music.youtube.com", "music.apple.com", "itunes.apple.com",
          "open.spotify.com", "spotify.com", "www.youtube.com",
          "Music.YouTube.com.evil.org", "", NoHost}

\* Url::host_str().unwrap_or_default()
host_str(host) == IF host = NoHost THEN "" ELSE host

from_url_apple_missing(host) ==
    LET h == host_str(host) IN
    CASE h = "music.youtube.com" -> "Youtube"
      [] h = "music.apple.com" -> "Apple"
      [] h \in {"open.spotify.com", "spotify.com"} -> "Spotify"
      [] OTHER -> "Unknown"

from_url(host) ==
    LET h == host_str(host) IN
    CASE h = "music.youtube.com" -> "Youtube"
      [] h \in {"music.apple.com", "itunes.apple.com"} -> "Apple"
      [] h \in {"open.spotify.com", "spotify.com"} -> "Spotify"
      [] OTHER -> "Unknown"

\* ------------------------------------------------------- fetch_yt_playlist
\* A rendered row: find_elements("yt-formatted-string") is Err or Ok(list of
\* children), each child's get_inner_text is Err or Ok(text).
YtRows == {
    Ok(<<Ok("Song A"), Ok("Bar"), Ok("Alb"), Ok("3:05"), Ok("")>>),
    Ok(<<Ok("Song A"), Ok("Bar"), Ok("Alb"), Ok("3:05")>>),
    Ok(<<Ok("Song A"), Err, Ok("Bar"), Ok(""), Ok("3:05"), Ok("")>>),
    Ok(<<Ok("Song A"), Ok("Bar"), Ok("Alb"), Ok("3:05"), Ok(""), Ok("x")>>),
    Err }

\* .filter_map(|el| el.find_elements(..).ok())
YtFound(els) == SelectSeq(els, LAMBDA el : el # Err)

\* strings.into_iter().filter_map(|el| el.get_inner_text().ok()).collect()
YtTexts(row) ==
    LET strings == row[1]
        oks == SelectSeq(strings, LAMBDA t : t # Err)
    IN [i \in 1..Len(oks) |-> oks[i][1]]

YtTrack_album_kept(track_info) ==
    Track(track_info[1], track_info[2], Some(track_info[3]))

\* [name, artist, album, _duration, _empty] => Track { .. }
YtTrack(track_info) ==
    Track(track_info[1], track_info[2],
          IF track_info[3] # "" THEN Some(track_info[3]) ELSE None)

\* the slice pattern of the match: exactly five elements
YtFive(track_info) == Len(track_info) = 5

\* the whole iterator chain: "unreachable" when some row hits the `_` arm
YtCollect(els) ==
    LET infos == [i \in 1..Len(YtFound(els)) |-> YtTexts(YtFound(els)[i])]
    IN IF \E i \in 1..Len(infos) : ~YtFive(infos[i])
       THEN [panic |-> TRUE, tracks |-> << >>]
       ELSE [panic |-> FALSE, tracks |-> [i \in 1..Len(infos) |-> YtTrack(infos[i])]]

\* --------------------------------------------------- fetch_spotify_playlist
\* A rendered row: the results of scroll_into_view, of find_element("a>div")
\* + get_inner_text, and of find_element("span>div") + get_inner_text.
SpRow(scroll, name, artist) == [scroll |-> scroll, name |-> name, artist |-> artist]

SpRows == {
    SpRow(TRUE, Ok("Song A"), Ok("Bar")),
    SpRow(FALSE, Ok("Song A"), Ok("Bar")),
    SpRow(TRUE, Ok("song a"), Ok("")),
    SpRow(TRUE, Err, Ok("Bar")),
    SpRow(FALSE, Ok("Song B"), Err) }

SpParse_scroll_required(el) ==
    IF el.scroll /\ el.name # Err /\ el.artist # Err
    THEN Some(Track(el.name[1], el.artist[1], None))
    ELSE None

\* match (name, artist) { (Ok(name), Ok(artist)) => Some(Track{..}), _ => None }
SpParse(el) ==
    IF el.name # Err /\ el.artist # Err
    THEN Some(Track(el.name[1], el.artist[1], None))
    ELSE None

Skip_one_more(els, n) ==
    IF n + 1 >= Len(els) THEN << >> ELSE SubSeq(els, n + 2, Len(els))

\* .skip(tracks.len())
Skip(els, n) == IF n >= Len(els) THEN << >> ELSE SubSeq(els, n + 1, Len(els))

\* .filter_map(|el| ..).collect()
SpBuf(els) ==
    LET parsed == [i \in 1..Len(els) |-> SpParse(els[i])]
        kept == SelectSeq(parsed, LAMBDA p : p # None)
    IN [i \in 1..Len(kept) |-> kept[i][1]]

RECURSIVE Absorb_no_contains(_, _)
Absorb_no_contains(tracks, buf) ==
    IF buf = << >> THEN tracks
    ELSE Absorb_no_contains(Append(tracks, Head(buf)), Tail(buf))

\* for track in buf { if tracks.contains(&track) { continue; } tracks.push(track); }
RECURSIVE Absorb(_, _)
Absorb(tracks, buf) ==
    IF buf = << >> THEN tracks
    ELSE Absorb(IF Head(buf) \in Range(tracks) THEN tracks
                ELSE Append(tracks, Head(buf)),
                Tail(buf))

\* ------------------------------------------------ try_find_apple_song_link
\* hrefs are token sequences; "%32" is the escape of "2", "%FF" is a byte
\* that is not valid UTF-8 once decoded
HrefSong1 == <<"https://music.apple.com/song/1">>
HrefSong2 == <<"https://music.apple.com/song/", "%32">>
HrefBad == <<"https://music.apple.com/song/", "%FF">>

\* An <a> element: get_inner_text is Err or Ok(title); get_attribute_value
\* ("href") is Err, Ok(None) or Ok(Some(href)).
Anchor(text, href) == [text |-> text, href |-> href]

\* An <li> candidate: find_element("a") is Err or Ok(anchor).
Lis == {
    Ok(Anchor(Ok("Song A"), Ok(Some(HrefSong1)))),
    Ok(Anchor(Ok("song a"), Ok(Some(HrefSong2)))),
    Ok(Anchor(Ok("Song B"), Ok(Some(HrefBad)))),
    Ok(Anchor(Ok("Song A"), Err)),
    Ok(Anchor(Ok("song a"), Ok(None))),
    Err }

decode_token(t) == IF t = "%32" THEN "2" ELSE t

\* urlencoding::decode(&href).ok().map(|href| href.into_owned())
decode(href) ==
    IF \E i \in 1..Len(href) : href[i] = "%FF" THEN None
    ELSE Some([i \in 1..Len(href) |-> decode_token(href[i])])

\* .filter_map(|el| el.find_element("a").ok())
LiAnchors(lis) ==
    LET found == SelectSeq(lis, LAMBDA li : li # Err)
    IN [i \in 1..Len(found) |-> found[i][1]]

title_matches_case_sensitive(a, track) ==
    a.text # Err /\ a.text[1] = track.name

\* matches!(el.get_inner_text().map(|title| title.to_lowercase()
\*          == track.name.to_lowercase()), Ok(true))
title_matches(a, track) ==
    a.text # Err /\ to_lowercase(a.text[1]) = to_lowercase(track.name)

MatchingHrefs_skip_missing(lis, track) ==
    LET anchors == SelectSeq(LiAnchors(lis), LAMBDA a : title_matches(a, track))
        read == SelectSeq(anchors, LAMBDA a : a.href # Err /\ a.href # Ok(None))
    IN [i \in 1..Len(read) |-> read[i].href[1]]

\* .filter(..).filter_map(|el| el.get_attribute_value("href").ok())
MatchingHrefs(lis, track) ==
    LET anchors == SelectSeq(LiAnchors(lis), LAMBDA a : title_matches(a, track))
        read == SelectSeq(anchors, LAMBDA a : a.href # Err)
    IN [i \in 1..Len(read) |-> read[i].href[1]]

\* `songs` is the outcome of the two waits: Err, or Ok(the <li> elements)
try_find_apple_song_link(songs, track) ==
    IF songs = Err THEN Err
    ELSE LET hrefs == MatchingHrefs(songs[1], track)
             first == IF hrefs = << >> THEN None ELSE Head(hrefs)   \* .next().flatten()
             link == IF first = None THEN None ELSE decode(first[1])
         IN link     \* .ok_or_else(..): None becomes Err, Some(l) becomes Ok(l)

result_push_front(result, url) == <<url>> \o result

\* result.push(url)
result_push(result, url) == Append(result, url)

\* ---------------------------------------------------------------- main
NotUrl == "playlist.json"

Sources == Hosts \cup {NotUrl}

Dists == {None, Some("Youtube"), Some("Apple"), Some("Spotify"), Some("Unknown")}

to_json_first_only(tracks) ==
    [i \in 1..(IF Len(tracks) > 0 THEN 1 ELSE 0) |->
        <<"name", tracks[i].name, "artist", tracks[i].artist, "album",
          IF tracks[i].album = None THEN <<"null">>
          ELSE <<"string", tracks[i].album[1]>> >>]

\* serde_json::to_string(&playlist): null for an absent album
to_json(tracks) ==
    [i \in 1..Len(tracks) |->
        <<"name", tracks[i].name, "artist", tracks[i].artist, "album",
          IF tracks[i].album = None THEN <<"null">>
          ELSE <<"string", tracks[i].album[1]>> >>]

NewTab(by) == [by |-> by, st |-> "open"]

VARIABLES
    source,        \* args.source
    pc,            \* position of the single thread of control
    platform,      \* what Platform::from_url returned
    tabs,          \* every tab created with browser.new_tab(), in order
    ytEls,         \* fetch_yt_playlist: the elements the query returned
    session,       \* Spotify page: "growing" or "virtualized"
    playlistRows,  \* Spotify page: all rows of the playlist
    rows,          \* fetch_spotify_playlist: elements of the last query
    tracks,        \* the extractor's local `tracks` (the spec's `collected`)
    playlist,      \* main's `playlist`
    file,          \* Option: what fs::write wrote
    done,          \* find_apple_links: tracks whose iteration has finished
    songs,         \* find_apple_links: what the search page showed
    result,        \* find_apple_links: `result`
    songLog,       \* log of lines 230 / 233, one entry per attempted track
    links,         \* main's `links`
    stdout         \* lines printed by main

vars == <<source, pc, platform, tabs, ytEls, session, playlistRows, rows, tracks,
          playlist, file, done, songs, result, songLog, links, stdout>>

extractorVars == <<ytEls, session, playlistRows, rows, tracks>>

resolverVars == <<done, songs, result, songLog>>

Init ==
    /\ source \in Sources
    /\ pc = "parse"
    /\ platform = "none"
    /\ tabs = << >>
    /\ ytEls = << >>
    /\ session = "none"
    /\ playlistRows = << >>
    /\ rows = << >>
    /\ tracks = << >>
    /\ playlist = << >>
    /\ file = None
    /\ done = 0
    /\ songs = Err
    /\ result = << >>
    /\ songLog = << >>
    /\ links = << >>
    /\ stdout = << >>

\* main, lines 77-85: Url::try_from and the match on Platform::from_url
ParseSource ==
    /\ pc = "parse"
    /\ IF source = NotUrl
       THEN pc' = "panic" /\ UNCHANGED platform                \* Err(_) => todo!()
       ELSE /\ platform' = from_url(source)
            /\ pc' = CASE platform' = "Youtube" -> "fetch_yt"
                       [] platform' = "Spotify" -> "fetch_spotify"
                       [] OTHER -> "panic"                     \* todo!()
    /\ UNCHANGED <<source, tabs, extractorVars, playlist, file, resolverVars, links, stdout>>

\* fetch_yt_playlist, lines 115-116: new_tab()? and navigate_to()?
YtOpen ==
    /\ pc = "fetch_yt"
    /\ \E r \in {"new_tab_err", "navigate_err", "ok"} :
          /\ tabs' = IF r = "new_tab_err" THEN tabs ELSE Append(tabs, NewTab("yt"))
          /\ pc' = IF r = "ok" THEN "yt_query" ELSE "fetch_err"
    /\ UNCHANGED <<source, platform, extractorVars, playlist, file, resolverVars, links, stdout>>

\* fetch_yt_playlist, lines 117-137: the query and the iterator chain
YtQuery ==
    /\ pc = "yt_query"
    /\ \/ /\ pc' = "fetch_err"                                 \* wait_for_elements(..)?
          /\ UNCHANGED <<ytEls, tracks>>
       \/ \E els \in NonEmptySeqsUpTo(YtRows, MaxYtRows) :
            /\ ytEls' = els
            /\ IF YtCollect(els).panic
               THEN pc' = "panic" /\ UNCHANGED tracks          \* unreachable!()
               ELSE pc' = "fetched" /\ tracks' = YtCollect(els).tracks
    /\ UNCHANGED <<source, platform, tabs, session, playlistRows, rows, playlist,
                   file, resolverVars, links, stdout>>

\* fetch_spotify_playlist, lines 145-149
SpOpen ==
    /\ pc = "fetch_spotify"
    /\ \E r \in {"new_tab_err", "navigate_err", "wait_err", "ok"} :
          /\ tabs' = IF r = "new_tab_err" THEN tabs ELSE Append(tabs, NewTab("spotify"))
          /\ IF r = "ok"
             THEN /\ pc' = "sp_loop"
                  /\ session' \in {"growing", "virtualized"}
                  /\ playlistRows' \in NonEmptySeqsUpTo(SpRows, MaxRows)
             ELSE pc' = "fetch_err" /\ UNCHANGED <<session, playlistRows>>
    /\ UNCHANGED <<source, platform, ytEls, rows, tracks, playlist, file,
                   resolverVars, links, stdout>>

on_query_err_break == "fetched"

\* Err(e) => { log::error!(..); continue; }: where a failed query leaves the loop
on_query_err == "sp_loop"

\* What wait_for_elements can return on the next pass: Err or Ok(elements).
\* A growing page shows a prefix of the playlist that gets longer on every
\* query until all rows are shown; a virtualized page shows any window.
SpQuery ==
    IF session = "growing"
    THEN LET n == Len(playlistRows)
             his == IF Len(rows) < n THEN (Len(rows) + 1)..n ELSE {n}
         IN {Ok(SubSeq(playlistRows, 1, hi)) : hi \in his}
    ELSE LET n == Len(playlistRows)
             windows == {w \in (1..n) \X (1..n) : w[1] <= w[2]}
         IN {Err} \cup {Ok(SubSeq(playlistRows, w[1], w[2])) : w \in windows}

\* fetch_spotify_playlist, lines 151-204: one pass of the loop
SpPass ==
    /\ pc = "sp_loop"
    /\ \E els \in SpQuery :
          IF els = Err
          THEN /\ rows' = << >>
               /\ pc' = on_query_err
               /\ UNCHANGED tracks
          ELSE LET buf == SpBuf(Skip(els[1], Len(tracks)))
                   tracks_added == Len(Absorb(tracks, buf)) - Len(tracks)
               IN /\ rows' = els[1]
                  /\ tracks' = Absorb(tracks, buf)
                  /\ pc' = IF tracks_added = 0 THEN "fetched" ELSE "sp_loop"
    /\ UNCHANGED <<source, platform, tabs, ytEls, session, playlistRows, playlist,
                   file, resolverVars, links, stdout>>

\* main, line 86: .expect("Failed to scrape playlist")
Expect ==
    /\ pc \in {"fetched", "fetch_err"}
    /\ IF pc = "fetched"
       THEN pc' = "save" /\ playlist' = tracks
       ELSE pc' = "panic" /\ UNCHANGED playlist
    /\ ytEls' = << >> /\ session' = "none" /\ playlistRows' = << >>
    /\ rows' = << >> /\ tracks' = << >>
    /\ UNCHANGED <<source, platform, tabs, file, resolverVars, links, stdout>>

\* main, lines 89-92; args.save is read here and nowhere else, so whether a
\* path was given is drawn here
Save ==
    /\ pc = "save"
    /\ \E save \in BOOLEAN :
          IF save
          THEN \/ file' = Some(to_json(playlist)) /\ pc' = "convert"
               \/ file' = file /\ pc' = "panic"                \* fs::write(..).unwrap()
          ELSE file' = file /\ pc' = "convert"
    /\ UNCHANGED <<source, platform, tabs, extractorVars, playlist, resolverVars, links, stdout>>

\* main, lines 95-103; args.dist is read here and nowhere else, so the target
\* platform is drawn here
Convert ==
    /\ pc = "convert"
    /\ \E dist \in Dists :
          pc' = CASE dist = None -> "print"                    \* None => Ok(vec![])
                  [] dist = Some("Apple") -> "ap_open"
                  [] OTHER -> "panic"                          \* todo!()
    /\ links' = << >>
    /\ UNCHANGED <<source, platform, tabs, extractorVars, playlist, file,
                   resolverVars, stdout>>

\* What the search page shows: the two waits of lines 245-246 fail, or they
\* return the <li> elements under the "Songs" container.
SongsShown == {Err} \cup {Ok(lis) : lis \in NonEmptySeqsUpTo(Lis, MaxCands)}

\* find_apple_links, lines 216-227: new_tab()? and navigate_to(&url)?
ApOpen ==
    /\ pc = "ap_open"
    /\ done < Len(playlist)
    /\ \E r \in {"new_tab_err", "navigate_err", "ok"} :
          /\ tabs' = IF r = "new_tab_err" THEN tabs ELSE Append(tabs, NewTab("apple"))
          /\ pc' = IF r = "ok" THEN "ap_find" ELSE "ap_err"
    /\ UNCHANGED <<source, platform, extractorVars, playlist, file, resolverVars,
                   links, stdout>>

\* find_apple_links, lines 229-234
ApFind ==
    /\ pc = "ap_find"
    /\ \E shown \in SongsShown :
          LET url == try_find_apple_song_link(shown, playlist[done + 1])
          IN /\ songs' = shown
             /\ result' = IF url # Err THEN result_push(result, url[1]) ELSE result
             /\ songLog' = Append(songLog, url)
    /\ pc' = "ap_close"
    /\ UNCHANGED <<source, platform, tabs, extractorVars, playlist, file, done,
                   links, stdout>>

after_close_propagates(st) == IF st = "close_failed" THEN "ap_err" ELSE "ap_open"

\* if let Err(e) = tab.close(true) { log::error!(..) }: the loop goes on either way
after_close(st) == "ap_open"

\* find_apple_links, lines 236-239: tab.close(true), its failure only logged
ApClose ==
    /\ pc = "ap_close"
    /\ \E st \in {"closed", "close_failed"} :
          /\ tabs' = [tabs EXCEPT ![Len(tabs)].st = st]
          /\ pc' = after_close(st)
    /\ done' = done + 1
    /\ songs' = Err
    /\ UNCHANGED <<source, platform, extractorVars, playlist, file, result, songLog,
                   links, stdout>>

\* find_apple_links, line 241: Ok(result)
ApReturn ==
    /\ pc = "ap_open"
    /\ done = Len(playlist)
    /\ pc' = "ap_ok"
    /\ UNCHANGED <<source, platform, tabs, extractorVars, playlist, file,
                   resolverVars, links, stdout>>

\* main, line 104: .expect("Failed to convert playlist")
ExpectLinks ==
    /\ pc \in {"ap_ok", "ap_err"}
    /\ IF pc = "ap_ok"
       THEN pc' = "print" /\ links' = result
       ELSE pc' = "panic" /\ UNCHANGED links
    /\ UNCHANGED <<source, platform, tabs, extractorVars, playlist, file,
                   resolverVars, stdout>>

\* main, lines 106-108
PrintLinks ==
    /\ pc = "print"
    /\ stdout' = links
    /\ pc' = "exit"
    /\ UNCHANGED <<source, platform, tabs, extractorVars, playlist, file,
                   resolverVars, links>>

Next ==
    \/ ParseSource
    \/ YtOpen
    \/ YtQuery
    \/ SpOpen
    \/ SpPass
    \/ Expect
    \/ Save
    \/ Convert
    \/ ApOpen
    \/ ApFind
    \/ ApClose
    \/ ApReturn
    \/ ExpectLinks
    \/ PrintLinks

Spec == Init /\ [][Next]_vars

\* the loop `loop { .. }` keeps running passes: nothing else is scheduled
LiveSpec == Spec /\ WF_vars(SpPass)

\* =================================================================== claims
\* s without the elements that occurred earlier in s, in first-seen order
Dedupe(s) ==
    LET F[i \in 0..Len(s)] ==
            IF i = 0 THEN << >>
            ELSE IF \E j \in 1..(i - 1) : s[j] = s[i] THEN F[i - 1]
                 ELSE Append(F[i - 1], s[i])
    IN F[Len(s)]

NoDuplicates(s) == \A i, j \in 1..Len(s) : s[i] = s[j] => i = j

InSpotify == session # "none"

SpTerminated == InSpotify /\ pc = "fetched"

\* C1 as stated: on a growing page the loop ends with `collected` equal to
\* the deduplicated records of the stabilized list (all rows of the playlist).
C1_Original ==
    (SpTerminated /\ session = "growing") => tracks = Dedupe(SpBuf(playlistRows))

\* C1 amended: on a growing page the loop terminates, and when it does
\* `collected` is the deduplicated records, in first-seen order, of the rows
\* the last pass returned (which is the stabilized list only if the loop was
\* not ended early by a pass that added no new unique record).
C1_Amended ==
    /\ [](SpTerminated /\ session = "growing" => tracks = Dedupe(SpBuf(rows)))
    /\ ((pc = "sp_loop" /\ session = "growing") ~> (pc = "fetched"))

\* C1 witness: a growing page stabilized on three rows, two of them the same
\* record, and the loop ended with the two distinct records.
C1_Witness ==
    /\ SpTerminated /\ session = "growing"
    /\ rows = playlistRows /\ Len(rows) = 3
    /\ Len(tracks) = 2

\* C2: the loop does not end on a pass that returned a row whose record is
\* not in `collected`, and it ends on the first successful pass adding nothing.
C2_Claim ==
    /\ [](SpTerminated =>
            \A i \in 1..Len(rows) :
                SpParse(rows[i]) # None => SpParse(rows[i])[1] \in Range(tracks))
    /\ [][(pc = "sp_loop" /\ rows' # << >> /\ tracks' = tracks) => pc' = "fetched"]_vars

\* C3: `collected` never holds two equal records, a pass only appends to it,
\* and feeding the same rows a second time changes nothing.
C3_DuplicateFree ==
    [][pc = "sp_loop" =>
          /\ NoDuplicates(tracks')
          /\ IsPrefix(tracks, tracks')
          /\ (rows # << >> /\ rows' = rows => tracks' = tracks)
          /\ LET L == SpBuf(rows')
                 once == Absorb(<< >>, L)
             IN /\ Absorb(<< >>, L \o L) = once
                /\ Absorb(once, L) = once
                /\ once = Dedupe(L)]_vars

\* C3 witness: a pass was fed rows holding the same record twice and a
\* different one, and `collected` holds each once.
C3_Witness ==
    /\ pc = "sp_loop"
    /\ Len(SpBuf(rows)) = 3
    /\ Len(tracks) = 2

AppleTabs == {i \in 1..Len(tabs) : tabs[i].by = "apple"}

OpenTabs == {i \in 1..Len(tabs) : tabs[i].st = "open"}

\* find_apple_links returned Err because navigate_to(&url) failed: the tab of
\* the track at hand was created and close was never called on it
NavigateFailed ==
    pc = "ap_err" /\ Len(tabs) \in AppleTabs \cap OpenTabs

\* C4: a failed search navigation (like a missing "Songs" container) only
\* loses that track: when the resolver returns, every track was attempted.
C4_Claim ==
    (pc = "ap_ok" \/ NavigateFailed) => Cardinality(AppleTabs) = Len(playlist)

\* C5: the session opened for a track has close called on it before the next
\* track starts or the resolver returns: only the track at hand has an open tab.
C5_Claim ==
    \A i \in AppleTabs \cap OpenTabs :
        i = Len(tabs) /\ pc \in {"ap_find", "ap_close"}

\* C6: when an extractor or the resolver returns, on success or on error, no
\* session it opened is still open.
C6_Claim ==
    /\ pc \in {"fetched", "fetch_err"} =>
          \A i \in OpenTabs : tabs[i].by \notin {"yt", "spotify"}
    /\ pc \in {"ap_ok", "ap_err"} => AppleTabs \cap OpenTabs = {}

\* the <li> candidates of the search at hand and the track searched for
Shown == songs[1]

Searched == playlist[done + 1]

\* what the search at hand produced: Err or Ok(link)
Found == songLog[Len(songLog)]

\* candidate i has an anchor whose visible text is the name, ignoring case
TextMatches(i) ==
    /\ Shown[i] # Err
    /\ Shown[i][1].text # Err
    /\ to_lowercase(Shown[i][1].text[1]) = to_lowercase(Searched.name)

Least(S) == CHOOSE i \in S : \A j \in S : i <= j

\* the link of candidate i: Err unless it has an href that decodes
LinkOf(i) ==
    LET href == Shown[i][1].href
    IN IF href = Err \/ href[1] = None THEN Err ELSE decode(href[1][1])

Searching == pc = "ap_close" /\ songs # Err

\* C7 as stated: a link is emitted only as the decoded href of the first
\* candidate, in rendered order, whose text equals the name ignoring case.
C7_Original ==
    (Searching /\ Found # Err) =>
        LET M == {i \in 1..Len(Shown) : TextMatches(i)}
        IN M # {} /\ Found = LinkOf(Least(M))

\* C7 amended: the candidate selected is the first one, in rendered order,
\* whose text equals the name ignoring case and whose href attribute could be
\* read (the artist is not consulted); the link emitted is its decoded href,
\* and no link is emitted when there is no such candidate or it has no href.
C7_Amended ==
    Searching =>
        LET M == {i \in 1..Len(Shown) :
                    TextMatches(i) /\ Shown[i][1].href # Err}
        IN /\ Found = (IF M = {} THEN Err ELSE LinkOf(Least(M)))
           /\ Found # Err => result[Len(result)] = Found[1]

\* C7 witness: of the candidates "Song A", "song a", both equal to the name
\* "Song A" ignoring case, the first gave the link.
C7_Witness ==
    /\ Searching
    /\ Len(Shown) = 2 /\ TextMatches(1) /\ TextMatches(2)
    /\ Searched.name = "Song A"
    /\ Shown[1][1].text = Ok("Song A") /\ Shown[2][1].text = Ok("song a")
    /\ Shown[2][1].href = Ok(Some(HrefSong2))
    /\ Found = Ok(HrefSong1)

\* the links logged for the tracks attempted so far, in track order
Links(log) ==
    LET ok == SelectSeq(log, LAMBDA url : url # Err)
    IN [i \in 1..Len(ok) |-> ok[i][1]]

\* C8: the links are those of the matched tracks, one each, in track order,
\* never more than the tracks; an unmatched track adds nothing and the
\* resolver goes on; a returned sequence covers every track.
C8_Output ==
    /\ [](/\ result = Links(songLog)
          /\ Len(result) <= Len(songLog) /\ Len(songLog) <= Len(playlist)
          /\ pc = "ap_ok" => Len(songLog) = Len(playlist)
          /\ pc \in {"print", "exit"} => links = result
          /\ pc = "exit" => stdout = result)
    /\ [][(pc = "ap_find" /\ songLog'[Len(songLog')] = Err) =>
             result' = result /\ pc' = "ap_close"]_vars
    /\ [][(pc = "ap_close" /\ Found = Err) => pc' = "ap_open"]_vars

\* C8 witness: two tracks, the first unmatched and the second matched, and
\* the resolver returned the one link.
C8_Witness ==
    /\ pc = "ap_ok"
    /\ Len(playlist) = 2
    /\ songLog[1] = Err /\ songLog[2] # Err
    /\ result = <<songLog[2][1]>>

\* the rows whose children were found, and the texts of row i
YtFoundRows == SelectSeq(ytEls, LAMBDA el : el # Err)

YtFields(i) == YtTexts(YtFoundRows[i])

Documented(host) ==
    CASE host = "music.youtube.com" -> "Youtube"
      [] host = "music.apple.com" -> "Apple"
      [] host = "itunes.apple.com" -> "Apple"
      [] host = "open.spotify.com" -> "Spotify"
      [] host = "spotify.com" -> "Spotify"
      [] OTHER -> "Unknown"

\* C10: the classifier gives every URL the platform documented for its host,
\* and Unknown for any other host, an empty or absent one included.
C10_Classifier ==
    (pc # "parse" /\ source # NotUrl) =>
        /\ platform \in {"Youtube", "Apple", "Spotify", "Unknown"}
        /\ platform = Documented(source)

\* C10 witness: a URL on itunes.apple.com was classified.
C10_Witness ==
    source = "itunes.apple.com" /\ platform = "Apple"

\* C11: at most one browser session is open at any time of the run.
C11_Claim == Cardinality(OpenTabs) <= 1

BeforeSave == {"parse", "fetch_yt", "yt_query", "fetch_spotify", "sp_loop",
               "fetched", "fetch_err", "save"}

\* C12: the JSON file is written only once the extractor has returned, it
\* holds every track of the playlist in extraction order, and a failed
\* acquisition ends the process with a failure and nothing written.
C12_Artifact ==
    /\ [](pc \in BeforeSave => file = None)
    /\ [](file # None =>
            /\ Len(file[1]) = Len(playlist)
            /\ \A i \in 1..Len(playlist) :
                 /\ file[1][i][2] = playlist[i].name
                 /\ file[1][i][4] = playlist[i].artist
                 /\ (file[1][i][6] = <<"null">>) = (playlist[i].album = None)
                 /\ playlist[i].album # None =>
                        file[1][i][6] = <<"string", playlist[i].album[1]>>)
    /\ [][pc = "fetch_err" => pc' = "panic" /\ file' = None]_vars
    /\ [][(pc = "yt_query" /\ pc' = "panic") => file' = None /\ playlist' = << >>]_vars
    /\ [][file # None => file' = file /\ playlist' = playlist]_vars

\* C12 witness: a playlist of two different tracks was written.
C12_Witness ==
    /\ file # None
    /\ Len(playlist) = 2 /\ playlist[1] # playlist[2]
    /\ Len(file[1]) = 2

\* C13: a source that is not a URL but the path of a saved playlist is
\* accepted: the run goes on to the save and resolve steps.
C13_Claim ==
    (source = NotUrl /\ pc # "parse") => pc # "panic"

\* C14: every record an extractor produced has a non-empty name, a non-empty
\* artist and an album that is absent or non-empty.
C14_Claim ==
    \A t \in Range(tracks) \cup Range(playlist) :
        t.name # "" /\ t.artist # "" /\ t.album # Some("")

\* C15: a pass whose query fails leaves `collected` as it was and the loop
\* running, ready for another query; it is not taken for a pass without progress.
C15_FailedQuery ==
    [][(pc = "sp_loop" /\ rows' = << >>) =>
          tracks' = tracks /\ pc' = "sp_loop" /\ (ENABLED SpPass)']_vars

\* C15 witness: a query failed after an earlier pass had collected a record.
C15_Witness ==
    pc = "sp_loop" /\ rows = << >> /\ tracks # << >>

\* the rows of a pass that .skip(tracks.len()) passes over
Skipped(els, n) == SubSeq(els, 1, IF n <= Len(els) THEN n ELSE Len(els))

\* C16: the rows a pass skips were all processed before: none of them has a
\* record that is missing from `collected`.
C16_Claim ==
    [][(pc = "sp_loop" /\ rows' # << >>) =>
          \A el \in Range(Skipped(rows', Len(tracks))) :
              (el.name # Err /\ el.artist # Err) =>
                  Track(el.name[1], el.artist[1], None) \in Range(tracks)]_vars

\* the records of the rows that yield both a name and an artist, in DOM order
Records(els) ==
    LET ok == SelectSeq(els, LAMBDA el : el.name # Err /\ el.artist # Err)
    IN [i \in 1..Len(ok) |-> Track(ok[i].name[1], ok[i].artist[1], None)]

\* C17: a pass never fails on a row without name or artist or on a failed
\* scroll: it appends, in DOM order and without duplicates, the record of
\* every row after the skipped ones that yields both fields.
C17_BadRows ==
    [][(pc = "sp_loop" /\ rows' # << >>) =>
          /\ pc' \in {"sp_loop", "fetched"}
          /\ tracks' = Dedupe(tracks \o Records(Skip(rows', Len(tracks))))]_vars

\* C17 witness: a pass returned a row without a name and then a row whose
\* scroll failed, and the record of the second was collected.
C17_Witness ==
    /\ InSpotify /\ Len(rows) = 2
    /\ rows[1].name = Err
    /\ ~rows[2].scroll /\ rows[2].name # Err /\ rows[2].artist # Err
    /\ tracks = <<Track(rows[2].name[1], rows[2].artist[1], None)>>

\* C18: a record is emitted only for rows of exactly 5 children, also when
\* some child yields no text, and it takes name, artist and album from the
\* texts of the 1st, 2nd and 3rd child.
C18_Claim ==
    (pc = "fetched" /\ ytEls # << >>) =>
        /\ Len(tracks) = Len(YtFoundRows)
        /\ \A i \in 1..Len(YtFoundRows) :
             LET children == YtFoundRows[i][1]
             IN /\ Len(children) = 5
                /\ children[1] = Ok(tracks[i].name)
                /\ children[2] = Ok(tracks[i].artist)
                /\ children[3] = Ok(IF tracks[i].album = None THEN ""
                                    ELSE tracks[i].album[1])

\* C19: a failed close is only logged: the links found so far stay in
\* `result` and the loop goes on to the next track.
C19_CloseFailure ==
    [][(pc = "ap_close" /\ tabs'[Len(tabs')].st = "close_failed") =>
          /\ result' = result
          /\ done' = done + 1
          /\ pc' = "ap_open"
          /\ (ENABLED (ApOpen \/ ApReturn))']_vars

\* C19 witness: the close of the first of two tracks failed after its link was
\* found, the second track was attempted and the returned links hold the first.
C19_Witness ==
    /\ pc = "ap_ok" /\ Len(playlist) = 2 /\ Len(songLog) = 2
    /\ \E i \in AppleTabs : tabs[i].st = "close_failed" /\ i < Len(tabs)
    /\ songLog[1] # Err /\ result[1] = songLog[1][1]
    /\ tabs[Len(tabs) - 1].st = "close_failed"

\* candidate i carries an href attribute
HasHref(i) == Shown[i][1].href # Err /\ Shown[i][1].href # Ok(None)

\* C20 as stated: the track gets a link exactly when some candidate whose
\* text matches carries an href.
C20_Original ==
    Searching =>
        (Found # Err <=> \E i \in 1..Len(Shown) : TextMatches(i) /\ HasHref(i))

\* C20 amended: the track gets a link exactly when the first candidate whose
\* text matches and whose href attribute could be read carries an href that
\* percent-decodes; a later matching candidate with an href does not help.
C20_Amended ==
    Searching =>
        (Found # Err <=>
            \E i \in 1..Len(Shown) :
                /\ TextMatches(i) /\ HasHref(i)
                /\ decode(Shown[i][1].href[1][1]) # None
                /\ \A j \in 1..(i - 1) :
                      TextMatches(j) => Shown[j][1].href = Err)

\* C20 witness: the first matching candidate has no href, the second has one,
\* and the track was reported as not found.
C20_Witness ==
    /\ Searching /\ Len(Shown) = 2
    /\ TextMatches(1) /\ Shown[1][1].href = Ok(None)
    /\ TextMatches(2) /\ HasHref(2)
    /\ Found = Err

====
